---- MODULE Spec2Model ----
(***************************************************************************)
(* Model of html/validation.js: the CharacterValidator rule engine, its    *)
(* date helpers and initializeValidator.                                   *)
(*                                                                         *)
(* Texts are sequences of one-character strings.  A JavaScript Date is the *)
(* number of days since 1970-01-01 (every Date the code builds is at       *)
(* midnight), or NaN for an Invalid Date.                                  *)
(***************************************************************************)
EXTENDS Integers, Sequences, FiniteSets, TLC

VARIABLES profList, characterValidator, console, now, input, result, returned

vars == <<profList, characterValidator, console, now, input, result, returned>>

\* JavaScript's undefined and NaN.  Texts are sequences of one-character
\* strings and numbers are <<"num", n>>, so neither is mistaken for them.
Undefined == <<"undefined">>
NaN == <<"NaN">>
Num(n) == <<"num", n>>

\* ---------------------------------------------------------------- bounds
MaxValLen == 3
MaxLog == 2
MaxCalls == 2

\* ------------------------------------------------------- JavaScript text
Digits == {"0", "1", "2", "3", "4", "5", "6", "7", "8", "9"}

DigitVal(c) ==
  CASE c = "0" -> 0 [] c = "1" -> 1 [] c = "2" -> 2 [] c = "3" -> 3
    [] c = "4" -> 4 [] c = "5" -> 5 [] c = "6" -> 6 [] c = "7" -> 7
    [] c = "8" -> 8 [] c = "9" -> 9

\* \w of a regular expression: letters, digits and underscore.
IsWordChar(c) ==
  c \in Digits \cup {"a", "b", "c", "x", "A", "B", "C", "X", "_"}

\* Canonical form of a character under the "i" flag.
Canonicalize(c) ==
  CASE c = "A" -> "a" [] c = "B" -> "b" [] c = "C" -> "c" [] c = "X" -> "x"
    [] OTHER -> c

\* String.prototype.split("-")
RECURSIVE SplitFrom(_, _, _)
SplitFrom(s, i, cur) ==
  IF i > Len(s) THEN <<cur>>
  ELSE IF s[i] = "-" THEN <<cur>> \o SplitFrom(s, i + 1, <<>>)
  ELSE SplitFrom(s, i + 1, Append(cur, s[i]))

Split(s) == SplitFrom(s, 1, <<>>)

RECURSIVE DigitsValue(_, _)
DigitsValue(s, acc) ==
  IF s = <<>> THEN acc ELSE DigitsValue(Tail(s), acc * 10 + DigitVal(Head(s)))

RECURSIVE TrimLeft(_)
TrimLeft(s) == IF s # <<>> /\ Head(s) = " " THEN TrimLeft(Tail(s)) ELSE s

RECURSIVE TrimRight(_)
TrimRight(s) ==
  IF s # <<>> /\ s[Len(s)] = " " THEN TrimRight(SubSeq(s, 1, Len(s) - 1)) ELSE s

\* Number(text) for texts of digits, blanks, letters, "-" and "/": blanks
\* are trimmed, the empty text is 0, a run of digits is its decimal value,
\* anything else is NaN.
NumberOfTrimmed(t) ==
  IF t = <<>> THEN Num(0)
  ELSE IF \A i \in 1..Len(t) : t[i] \in Digits THEN Num(DigitsValue(t, 0))
  ELSE NaN

Number(s) == NumberOfTrimmed(TrimRight(TrimLeft(s)))

\* The i-th element of the destructured array, undefined when it is shorter.
ComponentAt(parts, i) == IF i <= Len(parts) THEN Number(parts[i]) ELSE Undefined

ComponentsOf(parts) ==
  <<ComponentAt(parts, 1), ComponentAt(parts, 2), ComponentAt(parts, 3)>>

\* const [y, m, d] = text.split("-").map(Number)
Components(s) == ComponentsOf(Split(s))

\* !x for a number, NaN or undefined
Falsy(x) == x = Num(0) \/ x = NaN \/ x = Undefined

\* ------------------------------------------------------- JavaScript Date
\* Days since 1970-01-01 of a day of the proleptic Gregorian calendar, as
\* ECMAScript's MakeDay computes it, and back (Day, YearFromTime,
\* MonthFromTime, DateFromTime).  Years are counted from 1 March.
IsLeap(y) == (y % 4 = 0 /\ y % 100 # 0) \/ y % 400 = 0

DayOfYear(m, d) == (153 * ((m + 9) % 12) + 2) \div 5 + d - 1

DayOfEra(yoe, doy) == yoe * 365 + yoe \div 4 - yoe \div 100 + doy

DaysOfShifted(yy, m, d) ==
  (yy \div 400) * 146097 + DayOfEra(yy % 400, DayOfYear(m, d)) - 719468

DaysFromCivil(y, m, d) == DaysOfShifted(IF m <= 2 THEN y - 1 ELSE y, m, d)

YearOfEra(doe) ==
  (doe - doe \div 1460 + doe \div 36524 - doe \div 146096) \div 365

CivilOfMonth(era, yoe, doy, mp) ==
  << yoe + era * 400 + (IF mp >= 10 THEN 1 ELSE 0),
     IF mp < 10 THEN mp + 3 ELSE mp - 9,
     doy - (153 * mp + 2) \div 5 + 1 >>

CivilOfDay(era, yoe, doy) == CivilOfMonth(era, yoe, doy, (5 * doy + 2) \div 153)

CivilOfYear(era, doe, yoe) ==
  CivilOfDay(era, yoe, doe - (365 * yoe + yoe \div 4 - yoe \div 100))

CivilOfEra(era, doe) == CivilOfYear(era, doe, YearOfEra(doe))

CivilOfShifted(zz) == CivilOfEra(zz \div 146097, zz % 146097)

\* <<year, month, day>> of a day number, month 1-based
CivilFromDays(z) == CivilOfShifted(z + 719468)

\* MakeDay(year, month, date): month is 0-based, and overflowing months and
\* days are carried.
MakeDay(year, month, date) ==
  DaysFromCivil(year + (month \div 12), (month % 12) + 1, 1) + date - 1

\* new Date(year, month, date) and Date.UTC(year, month, date): a year of
\* 0..99 means 1900 + year.
MakeDate(year, month, date) ==
  MakeDay(IF year >= 0 /\ year <= 99 THEN 1900 + year ELSE year, month, date)

getFullYear(t) == CivilFromDays(t)[1]
getMonth(t) == CivilFromDays(t)[2] - 1
getDate(t) == CivilFromDays(t)[3]

\* ------------------------------------------------------------ date helpers
\* The date of the components with the month passed on without the "- 1".
DateOfComponents_monthNotShifted(c) ==
  IF Falsy(c[1]) \/ Falsy(c[2]) \/ Falsy(c[3]) THEN NaN
  ELSE Num(MakeDate(c[1][2], c[2][2], c[3][2]))

\* if (!y || !m || !d) return Invalid Date; return new Date(Date.UTC(y, m - 1, d))
DateOfComponents(c) ==
  IF Falsy(c[1]) \/ Falsy(c[2]) \/ Falsy(c[3]) THEN NaN
  ELSE Num(MakeDate(c[1][2], c[2][2] - 1, c[3][2]))

parseISODate(dateString) ==
  DateOfComponents(Components(IF dateString = Undefined THEN <<>> ELSE dateString))

\* The clock is read as <<year, month, day>> in UTC, month 1-based.
todayUTC == MakeDate(now[1], now[2] - 1, now[3])

\* new Date(Date.UTC(today.getUTCFullYear() - years, today.getUTCMonth(),
\*                   today.getUTCDate()))
Cutoff(today, years) ==
  MakeDate(getFullYear(today) - years, getMonth(today), getDate(today))

\* dob > cutoff written as dob >= cutoff
After_orEqual(dob, cutoff) == IF dob = NaN THEN TRUE ELSE dob[2] >= cutoff

\* if (isNaN(dob)) return true; return dob > cutoff
After(dob, cutoff) == IF dob = NaN THEN TRUE ELSE dob[2] > cutoff

\* if (isNaN(dob)) return true; return dob < cutoff
Before(dob, cutoff) == IF dob = NaN THEN TRUE ELSE dob[2] < cutoff

isTooYoung(dateString, minYears) ==
  After(parseISODate(dateString), Cutoff(todayUTC, minYears))

isTooOld(dateString, maxYears) ==
  Before(parseISODate(dateString), Cutoff(todayUTC, maxYears))

\* /^\d{4}-\d{2}-\d{2}$/.test(text); undefined is tested as "undefined".
DateShape(s) ==
  /\ s # Undefined
  /\ Len(s) = 10
  /\ \A i \in {1, 2, 3, 4, 6, 7, 9, 10} : s[i] \in Digits
  /\ s[5] = "-"
  /\ s[8] = "-"

\* date.getFullYear() === y && date.getMonth() === m - 1 && date.getDate() === d
SameDay(date, y, m, d) ==
  /\ getFullYear(date) = y
  /\ getMonth(date) = m - 1
  /\ getDate(date) = d

\* const date = new Date(y, m - 1, d), and the comparison of its fields
RoundTrips(y, m, d) == SameDay(MakeDate(y, m - 1, d), y, m, d)

RoundTripsOf(c) == RoundTrips(c[1][2], c[2][2], c[3][2])

isValidDate(dateString) ==
  IF ~DateShape(dateString) THEN FALSE ELSE RoundTripsOf(Components(dateString))

\* ----------------------------------------------------------------- RegExp
\* A regular expression is its alternatives (plain words), whether it is
\* anchored as ^...$, whether a \b follows the group, its flags and its
\* lastIndex.
AltMatchesAt(re, alt, s, i) ==
  /\ i + Len(alt) <= Len(s)
  /\ \A k \in 1..Len(alt) :
        IF "i" \in re.flags
        THEN Canonicalize(s[i + k]) = Canonicalize(alt[k])
        ELSE s[i + k] = alt[k]

\* \b between s[p] and s[p + 1]
WordBoundary(s, p) ==
  (p > 0 /\ IsWordChar(s[p])) # (p < Len(s) /\ IsWordChar(s[p + 1]))

\* The alternatives that match with the match starting after s[i].
MatchingAlts(re, s, i) ==
  {k \in 1..Len(re.alts) :
     /\ AltMatchesAt(re, re.alts[k], s, i)
     /\ re.boundary => WordBoundary(s, i + Len(re.alts[k]))
     /\ re.anchored => (i = 0 /\ i + Len(re.alts[k]) = Len(s))}

Least(S) == CHOOSE a \in S : \A b \in S : a <= b

\* The end of the match that starts after s[i]: the first alternative wins.
MatchEnd(re, s, i) == i + Len(re.alts[Least(MatchingAlts(re, s, i))])

\* The regular expression after a test that found matches starting at the
\* positions in found.
AfterTest(re, s, found) ==
  IF "g" \notin re.flags THEN re
  ELSE IF found = {} THEN [re EXCEPT !.lastIndex = 0]
  ELSE [re EXCEPT !.lastIndex = MatchEnd(re, s, Least(found))]

TestFound(re, s, found) == <<found # {}, AfterTest(re, s, found)>>

\* RegExp.prototype.test: <<matched, the regular expression afterwards>>.
\* With the g flag the search starts at lastIndex, which is then set to the
\* end of the match, or to 0 when there is none.
RegExpTest(re, s) ==
  TestFound(re, s,
    {i \in (IF "g" \in re.flags THEN re.lastIndex ELSE 0)..Len(s) :
       MatchingAlts(re, s, i) # {}})

\* ------------------------------------------------------------- rule table
MinNameLength == 2
MaxNameLength == 16
MinAge == 8
MaxAge == 100

NameRules(field) ==
  << [test |-> "nonEmpty", message |-> "forgotten_field"],
     [test |-> "minLength", message |-> field \o "_too_short"],
     [test |-> "maxLength", message |-> field \o "_too_long"],
     [test |-> "noProfanity", message |-> "profanity"] >>

\* The rule table with the age rules ahead of the calendar rule.
validators_ageFirst ==
  << [field |-> "firstname", rules |-> NameRules("firstname")],
     [field |-> "lastname", rules |-> NameRules("lastname")],
     [field |-> "nationality", rules |->
        << [test |-> "nonEmpty", message |-> "forgotten_field"],
           [test |-> "noProfanity", message |-> "profanity"] >>],
     [field |-> "gender", rules |->
        << [test |-> "nonEmpty", message |-> "forgotten_field"] >>],
     [field |-> "date", rules |->
        << [test |-> "nonEmpty", message |-> "forgotten_field"],
           [test |-> "notTooYoung", message |-> "age_too_young"],
           [test |-> "notTooOld", message |-> "age_too_old"],
           [test |-> "isValidDate", message |-> "invalid_date"] >>] >>

\* this.validators, in the insertion order of its keys.
validators ==
  << [field |-> "firstname", rules |-> NameRules("firstname")],
     [field |-> "lastname", rules |-> NameRules("lastname")],
     [field |-> "nationality", rules |->
        << [test |-> "nonEmpty", message |-> "forgotten_field"],
           [test |-> "noProfanity", message |-> "profanity"] >>],
     [field |-> "gender", rules |->
        << [test |-> "nonEmpty", message |-> "forgotten_field"] >>],
     [field |-> "date", rules |->
        << [test |-> "nonEmpty", message |-> "forgotten_field"],
           [test |-> "isValidDate", message |-> "invalid_date"],
           [test |-> "notTooYoung", message |-> "age_too_young"],
           [test |-> "notTooOld", message |-> "age_too_old"] >>] >>

\* new CharacterValidator(profanityRegex).  The rule table is the definition
\* validators: the constructor is the only place that assigns it.
CharacterValidator(profanityRegex) ==
  [defined |-> TRUE, profanityRegex |-> profanityRegex]

\* The property names every object inherits from Object.prototype.
ObjectPrototypeKeys ==
  {"constructor", "toString", "valueOf", "hasOwnProperty", "__proto__"}

OwnKeys(table) == [i \in 1..Len(table) |-> table[i].field]

HasOwn(table, key) == \E i \in 1..Len(table) : table[i].field = key

OwnRules(table, key) ==
  table[CHOOSE i \in 1..Len(table) : table[i].field = key].rules

\* The profanity rule: <<passed, the validator object afterwards>>
NoMatch(self, t) == <<~t[1], [self EXCEPT !.profanityRegex = t[2]]>>

\* validator.test(value): <<passed, the validator object afterwards>>
RuleTest(self, rule, value) ==
  CASE rule.test = "nonEmpty" -> <<value # Undefined /\ value # <<>>, self>>
    [] rule.test = "minLength" -> <<Len(value) >= MinNameLength, self>>
    [] rule.test = "maxLength" -> <<Len(value) <= MaxNameLength, self>>
    [] rule.test = "noProfanity" -> NoMatch(self, RegExpTest(self.profanityRegex, value))
    [] rule.test = "isValidDate" -> <<isValidDate(value), self>>
    [] rule.test = "notTooYoung" -> <<~isTooYoung(value, MinAge), self>>
    [] rule.test = "notTooOld" -> <<~isTooOld(value, MaxAge), self>>

Valid == [isValid |-> TRUE]
Invalid(field, message) == [isValid |-> FALSE, field |-> field, message |-> message]
TypeError == [threw |-> "TypeError"]

RECURSIVE RunRules(_, _, _, _, _)
RECURSIVE AfterRule(_, _, _, _, _)

\* if (!validator.test(value)) return { isValid: false, ... }, t being the
\* outcome of the test of rule i
AfterRule(t, fieldName, rules, i, value) ==
  IF ~t[1] THEN <<Invalid(fieldName, rules[i].message), t[2]>>
  ELSE RunRules(t[2], fieldName, rules, i + 1, value)

\* for (const validator of fieldValidators) ...
RunRules(self, fieldName, rules, i, value) ==
  IF i > Len(rules) THEN <<Valid, self>>
  ELSE AfterRule(RuleTest(self, rules[i], value), fieldName, rules, i, value)

\* validateField: <<what the call returns or throws, this afterwards>>
validateField(self, fieldName, value) ==
  IF HasOwn(validators, fieldName)
  THEN RunRules(self, fieldName, OwnRules(validators, fieldName), 1, value)
  ELSE IF fieldName \in ObjectPrototypeKeys
  THEN <<TypeError, self>>
  ELSE <<Valid, self>>

\* character[field] of a record kept as its <<key, value>> pairs in order
Get(character, key) ==
  IF \E i \in 1..Len(character) : character[i][1] = key
  THEN character[CHOOSE i \in 1..Len(character) : character[i][1] = key][2]
  ELSE Undefined

RECURSIVE ValidateFields(_, _, _, _)
RECURSIVE AfterField(_, _, _, _)

\* if (!result.isValid) return result, r being the outcome for field i
AfterField(r, keys, i, character) ==
  IF r[1] # Valid THEN r ELSE ValidateFields(r[2], keys, i + 1, character)

\* for (const field in ...) { const result = this.validateField(...) ... }
ValidateFields(self, keys, i, character) ==
  IF i > Len(keys) THEN <<Valid, self>>
  ELSE AfterField(validateField(self, keys[i], Get(character, keys[i])),
                  keys, i, character)

Keys(character) == [i \in 1..Len(character) |-> character[i][1]]

\* validateCharacter walking the keys of the record, not of the rule table.
validateCharacter_recordKeys(self, character) ==
  ValidateFields(self, Keys(character), 1, character)

\* validateCharacter: <<what the call returns, this afterwards>>
validateCharacter(self, character) ==
  ValidateFields(self, OwnKeys(validators), 1, character)

\* ------------------------------------------------------ initializeValidator
\* The flags of the profanity expression with g added.
ProfanityFlags_global == {"g", "i"}

ProfanityFlags == {"i"}

\* new RegExp("(" + profList.join("|") + ")\\b", flags): the group holds one
\* alternative per term, and a single empty alternative for an empty list.
ProfanityRegex(terms) ==
  [alts |-> IF terms = <<>> THEN << <<>> >> ELSE terms,
   anchored |-> FALSE, boundary |-> TRUE,
   flags |-> ProfanityFlags, lastIndex |-> 0]

\* An empty expression, which matches every text.
FallbackRegex_matchesAll ==
  [alts |-> << <<>> >>, anchored |-> FALSE, boundary |-> FALSE,
   flags |-> {}, lastIndex |-> 0]

\* /^$/
FallbackRegex ==
  [alts |-> << <<>> >>, anchored |-> TRUE, boundary |-> FALSE,
   flags |-> {}, lastIndex |-> 0]

NotFoundMessage == "Profanity list not found. Validation may not work correctly."

\* ------------------------------------------------------------------ inputs
NameAlphabet == {"a", "b", "A", " "}

Rep(c, n) == [i \in 1..n |-> c]

NameValues ==
  UNION {[1..k -> NameAlphabet] : k \in 0..MaxValLen}
    \cup {Undefined}
    \cup {Rep("a", n) : n \in {MaxNameLength, MaxNameLength + 1}}
    \cup {Rep("a", n) \o <<"b">> : n \in {MaxNameLength - 1, MaxNameLength}}

DigitChar(n) == <<"0", "1", "2", "3", "4", "5", "6", "7", "8", "9">>[n + 1]

Pad2(n) == <<DigitChar(n \div 10), DigitChar(n % 10)>>

Pad4(n) == Pad2(n \div 100) \o Pad2(n % 100)

Format(y, m, d) == Pad4(y) \o <<"-">> \o Pad2(m) \o <<"-">> \o Pad2(d)

Years == {50, 1924, 2016, 2020, 2023, 2024, 2100}
Months == {0, 2, 3, 4, 6, 13}
Days == {1, 14, 15, 16, 29, 30, 31}

Malformed ==
  { Undefined, <<>>,
    <<"2", "0", "2", "0", "-", "6", "-", "1", "6">>,
    <<"2", "0", "2", "0", "-", "0", "6", "-", "1", "6", " ">>,
    <<"2", "0", "2", "0", "/", "0", "6", "/", "1", "6">>,
    <<"2", "0", "2", "0", "0", "6", "1", "6">>,
    <<"2", "0", "2", "0", "-", "0", "6">>,
    <<"2", "0", "2", "0", "-", "0", "6", "-", "a", "b">>,
    <<"2", "0", "-", "0", "6", "-", "1", "6">>,
    <<"0", "0", "0", "0", "-", "0", "1", "-", "0", "1">>,
    <<"2", "0", "2", "0", "-", "0", "6", "-", "0", "0">>,
    <<"a", "b">> }

DateValues == {Format(y, m, d) : y \in Years, m \in Months, d \in Days} \cup Malformed

FieldNames == {"firstname", "lastname", "nationality", "gender", "date"}

OtherNames == {"cid", "constructor"}

FieldInputs ==
  {[kind |-> "field", fieldName |-> f, value |-> v] :
      f \in (FieldNames \ {"date"}) \cup OtherNames, v \in NameValues}
    \cup {[kind |-> "field", fieldName |-> "date", value |-> v] : v \in DateValues}

Absent == <<"absent">>

KeyOrders ==
  { <<"firstname", "lastname", "nationality", "gender", "date">>,
    <<"date", "gender", "nationality", "lastname", "firstname">> }

\* The record with the given keys in the given order, without the absent ones.
MkRecord(order, vals) ==
  SelectSeq([i \in 1..Len(order) |-> <<order[i], vals[order[i]]>>],
            LAMBDA p : p[2] # Absent)

Records ==
  {MkRecord(o, [firstname |-> a, lastname |-> b, nationality |-> c,
                gender |-> g, date |-> d]) :
      o \in KeyOrders,
      a \in {Absent, <<>>, <<"a", "b">>, <<"b", "a">>},
      b \in {Absent, <<"A", "b">>},
      c \in {Absent, <<"a">>, <<"a", "b">>},
      g \in {Absent, <<"a">>},
      d \in {Absent, Format(2023, 2, 30), Format(2016, 6, 15)}}

RecordInputs == {[kind |-> "record", character |-> r] : r \in Records}

ProfLists ==
  { [defined |-> FALSE],
    [defined |-> TRUE, terms |-> <<>>],
    [defined |-> TRUE, terms |-> << <<"a", "b">> >>],
    [defined |-> TRUE, terms |-> << <<"b">>, <<"a", "b">> >>] }

Todays == {<<2024, 6, 15>>, <<2024, 2, 29>>, <<2108, 2, 29>>}

AgeArgs == {MinAge, MaxAge}

\* ----------------------------------------------------------- state machine
\* The clock is read by the date rules only and the matcher by the name
\* rules only: a call on one name field is explored on one day, a call on
\* the date field with one list, a record with all days and lists.
Explored(pl, today, in) ==
  \/ in.kind = "record"
  \/ in.kind = "field" /\ in.fieldName = "date"
       /\ pl.defined /\ pl.terms = << <<"a", "b">> >>
  \/ in.kind = "field" /\ in.fieldName # "date" /\ today = <<2024, 6, 15>>

Init ==
  /\ profList \in ProfLists
  /\ characterValidator = [defined |-> FALSE]
  /\ console = <<>>
  /\ now \in Todays
  /\ input \in FieldInputs \cup RecordInputs
  /\ Explored(profList, now, input)
  /\ result = [op |-> "none"]
  /\ returned = <<>>

initializeValidator ==
  /\ IF profList.defined
     THEN /\ characterValidator' = CharacterValidator(ProfanityRegex(profList.terms))
          /\ UNCHANGED console
     ELSE /\ Len(console) < MaxLog
          /\ console' = Append(console, NotFoundMessage)
          /\ characterValidator' = CharacterValidator(FallbackRegex)
  /\ UNCHANGED <<profList, now, input, result, returned>>

\* A validation returns r[1] and leaves the validator object as r[2].
Return(op, r) ==
  /\ characterValidator' = r[2]
  /\ result' = [op |-> op, ret |-> r[1]]
  /\ returned' = Append(returned, r[1])

ValidateField ==
  /\ characterValidator.defined
  /\ input.kind = "field"
  /\ Len(returned) < MaxCalls
  /\ Return("validateField",
            validateField(characterValidator, input.fieldName, input.value))
  /\ UNCHANGED <<profList, console, now, input>>

ValidateCharacter ==
  /\ characterValidator.defined
  /\ input.kind = "record"
  /\ Len(returned) < MaxCalls
  /\ Return("validateCharacter",
            validateCharacter(characterValidator, input.character))
  /\ UNCHANGED <<profList, console, now, input>>

IsDateInput == input.kind = "field" /\ input.fieldName = "date"

IsValidDate ==
  /\ characterValidator.defined
  /\ IsDateInput
  /\ result' = [op |-> "isValidDate", ret |-> isValidDate(input.value)]
  /\ UNCHANGED <<profList, characterValidator, console, now, input, returned>>

ParseISODate ==
  /\ characterValidator.defined
  /\ IsDateInput
  /\ result' = [op |-> "parseISODate", ret |-> parseISODate(input.value)]
  /\ UNCHANGED <<profList, characterValidator, console, now, input, returned>>

IsTooYoung ==
  /\ characterValidator.defined
  /\ IsDateInput
  /\ \E minYears \in AgeArgs :
       result' = [op |-> "isTooYoung", years |-> minYears,
                  ret |-> isTooYoung(input.value, minYears)]
  /\ UNCHANGED <<profList, characterValidator, console, now, input, returned>>

IsTooOld ==
  /\ characterValidator.defined
  /\ IsDateInput
  /\ \E maxYears \in AgeArgs :
       result' = [op |-> "isTooOld", years |-> maxYears,
                  ret |-> isTooOld(input.value, maxYears)]
  /\ UNCHANGED <<profList, characterValidator, console, now, input, returned>>

Next ==
  \/ initializeValidator
  \/ ValidateField
  \/ ValidateCharacter
  \/ IsValidDate
  \/ ParseISODate
  \/ IsTooYoung
  \/ IsTooOld

Spec == Init /\ [][Next]_vars

\* ===================================================================
\* Properties
\* ===================================================================
DeclaredOrder == <<"firstname", "lastname", "nationality", "gender", "date">>

IsValidation == result.op \in {"validateField", "validateCharacter"}

DaysInMonth(y, m) ==
  IF m = 2 THEN (IF IsLeap(y) THEN 29 ELSE 28)
  ELSE IF m \in {4, 6, 9, 11} THEN 30 ELSE 31

\* The numeric year, month and day written in a text of the date shape.
TextYMD(s) ==
  << DigitsValue(SubSeq(s, 1, 4), 0),
     DigitsValue(SubSeq(s, 6, 7), 0),
     DigitsValue(SubSeq(s, 9, 10), 0) >>

\* A text of the date shape that names a day of the calendar.
CalendarDate(s) ==
  /\ DateShape(s)
  /\ TextYMD(s)[2] \in 1..12
  /\ TextYMD(s)[3] \in 1..DaysInMonth(TextYMD(s)[1], TextYMD(s)[2])

\* <<y, m, d>> a strictly later than b
Later(a, b) ==
  \/ a[1] > b[1]
  \/ a[1] = b[1] /\ a[2] > b[2]
  \/ a[1] = b[1] /\ a[2] = b[2] /\ a[3] > b[3]

\* ---- C1
FieldResult(f) == validateField(characterValidator, f, Get(input.character, f))[1]

FailingFields == {i \in 1..Len(DeclaredOrder) : FieldResult(DeclaredOrder[i]) # Valid}

\* C1: validateCharacter returns the validateField result of the first field,
\* in the order firstname, lastname, nationality, gender, date, that does not
\* validate, whatever the order or presence of the record's keys, and
\* {isValid: true} exactly when all five validate; an empty firstname is
\* reported even when the date is malformed too.
C1_FirstFailingField ==
  result.op = "validateCharacter" =>
    /\ IF FailingFields = {} THEN result.ret = Valid
       ELSE result.ret =
              FieldResult(DeclaredOrder[CHOOSE i \in FailingFields :
                                          \A j \in FailingFields : i <= j])
    /\ (result.ret = Valid) <=> (FailingFields = {})
    /\ (Get(input.character, "firstname") \in {Undefined, <<>>}
          => result.ret = Invalid("firstname", "forgotten_field"))

C1_Witness ==
  /\ result.op = "validateCharacter"
  /\ Len(input.character) = 5
  /\ input.character[1][1] = "date"
  /\ Get(input.character, "date") = Format(2023, 2, 30)
  /\ Get(input.character, "firstname") = <<>>
  /\ result.ret = Invalid("firstname", "forgotten_field")

\* ---- C2
\* The codes of a field in the order of the rule table of the specification.
Codes(f) ==
  CASE f \in {"firstname", "lastname"} ->
         <<"forgotten_field", f \o "_too_short", f \o "_too_long", "profanity">>
    [] f = "nationality" -> <<"forgotten_field", "profanity">>
    [] f = "gender" -> <<"forgotten_field">>
    [] f = "date" -> <<"forgotten_field", "invalid_date", "age_too_young", "age_too_old">>

\* The predicate of a code fails on a value.
Fails(f, code, v) ==
  CASE code = "forgotten_field" -> v \in {Undefined, <<>>}
    [] code = f \o "_too_short" -> Len(v) < 2
    [] code = f \o "_too_long" -> Len(v) > 16
    [] code = "profanity" -> RegExpTest(characterValidator.profanityRegex, v)[1]
    [] code = "invalid_date" -> ~isValidDate(v)
    [] code = "age_too_young" -> isTooYoung(v, 8)
    [] code = "age_too_old" -> isTooOld(v, 100)

FailingCodes(f, v) == {i \in 1..Len(Codes(f)) : Fails(f, Codes(f)[i], v)}

\* C2: for the five declared fields validateField returns Invalid with the
\* field and the code of the first failing rule, and Valid only if no rule
\* fails: empty or absent is forgotten_field; a name of length 1 is too
\* short, of length 17 too long, of length 2..16 neither; a non-empty date
\* that is not a calendar date is invalid_date, never an age code.
C2_FirstFailingRule ==
  (result.op = "validateField" /\ input.fieldName \in FieldNames) =>
    LET f == input.fieldName
        v == input.value
        empty == v \in {Undefined, <<>>}
        failing == IF empty THEN {1} ELSE FailingCodes(f, v)
    IN  /\ IF failing = {} THEN result.ret = Valid
           ELSE result.ret =
                  Invalid(f, Codes(f)[CHOOSE i \in failing : \A j \in failing : i <= j])
        /\ empty => result.ret = Invalid(f, "forgotten_field")
        /\ (f \in {"firstname", "lastname"} /\ ~empty) =>
              /\ Len(v) = 1 => result.ret = Invalid(f, f \o "_too_short")
              /\ Len(v) = 17 => result.ret = Invalid(f, f \o "_too_long")
              /\ Len(v) \in 2..16 =>
                    result.ret \in {Valid, Invalid(f, "profanity")}
        /\ (f = "date" /\ ~empty /\ ~CalendarDate(v)) =>
              result.ret = Invalid(f, "invalid_date")

C2_Witness ==
  /\ result.op = "validateField"
  /\ input.fieldName = "date"
  /\ input.value = Format(2023, 2, 30)
  /\ result.ret = Invalid("date", "invalid_date")

\* ---- C3
\* C3: isValidDate is true exactly for the texts of the shape dddd-dd-dd
\* whose month is in 1..12 and whose day is a day of that month in that
\* year, for every four-digit year.
C3_CalendarValidity ==
  result.op = "isValidDate" => (result.ret <=> CalendarDate(input.value))

\* ---- C4
\* C4: for a date of birth that is a calendar date and that parseISODate
\* parses, on every current date, isTooYoung is true iff
\* the date of birth is strictly later than today's month and day in the
\* year (today's year - minYears), and isTooOld is true iff it is strictly
\* earlier than today's month and day in (today's year - maxYears).
C4_AgeCutoffs ==
  ( /\ result.op \in {"isTooYoung", "isTooOld"}
    /\ CalendarDate(input.value)
    /\ parseISODate(input.value) # NaN ) =>
    LET dob == TextYMD(input.value)
        cutoff == <<now[1] - result.years, now[2], now[3]>>
    IN  IF result.op = "isTooYoung"
        THEN result.ret <=> Later(dob, cutoff)
        ELSE result.ret <=> Later(cutoff, dob)

\* ---- C5
DateResult(y, m, d, expected) ==
  input.value = Format(y, m, d) => result.ret = expected

\* C5 as stated: on 2024-06-15 the date field gives age_too_young for
\* 2020-06-16, no age error for 2020-06-15 and 1924-06-15, and age_too_old
\* for 1924-06-14.
C5_AsStated ==
  (now = <<2024, 6, 15>> /\ result.op = "validateField" /\ input.fieldName = "date") =>
    /\ DateResult(2020, 6, 16, Invalid("date", "age_too_young"))
    /\ DateResult(2020, 6, 15, Valid)
    /\ DateResult(1924, 6, 15, Valid)
    /\ DateResult(1924, 6, 14, Invalid("date", "age_too_old"))

\* C5 amended: on 2024-06-15 the date field gives age_too_young for
\* 2020-06-16 and for 2020-06-15 (four years before today); the date eight
\* years before today, 2016-06-15, has no age error and 2016-06-16 is
\* age_too_young; 1924-06-15 has no age error; 1924-06-14 is age_too_old.
C5_Amended ==
  (now = <<2024, 6, 15>> /\ result.op = "validateField" /\ input.fieldName = "date") =>
    /\ DateResult(2020, 6, 16, Invalid("date", "age_too_young"))
    /\ DateResult(2020, 6, 15, Invalid("date", "age_too_young"))
    /\ DateResult(2016, 6, 16, Invalid("date", "age_too_young"))
    /\ DateResult(2016, 6, 15, Valid)
    /\ DateResult(1924, 6, 15, Valid)
    /\ DateResult(1924, 6, 14, Invalid("date", "age_too_old"))

C5_Witness ==
  /\ now = <<2024, 6, 15>>
  /\ result.op = "validateField"
  /\ input.fieldName = "date"
  /\ input.value = Format(2020, 6, 15)
  /\ result.ret = Invalid("date", "age_too_young")

\* ---- C6
EqualIgnoringCase(a, b) ==
  /\ Len(a) = Len(b)
  /\ \A k \in 1..Len(a) : Canonicalize(a[k]) = Canonicalize(b[k])

\* The term occurs in v right after v[i].
OccursAt(term, v, i) ==
  /\ i + Len(term) <= Len(v)
  /\ EqualIgnoringCase(SubSeq(v, i + 1, i + Len(term)), term)

\* The occurrence is inside a larger word: a word character directly before
\* it or directly after it.
InsideWord(term, v, i) ==
  \/ i > 0 /\ IsWordChar(v[i])
  \/ i + Len(term) < Len(v) /\ IsWordChar(v[i + Len(term) + 1])

Terms == {profList.terms[k] : k \in 1..Len(profList.terms)}

Occurrences(v) == {<<t, i>> \in Terms \X (0..Len(v)) : OccursAt(t, v, i)}

\* C6: with the matcher built from a term list, for firstname, lastname (of
\* length 2..16) and nationality, a value equal to a term in any letter case
\* is profanity, and a value in which terms occur only inside larger words is
\* not profanity.
C6_WholeWord ==
  ( /\ result.op = "validateField"
    /\ input.fieldName \in {"firstname", "lastname", "nationality"}
    /\ profList.defined
    /\ input.value \notin {Undefined, <<>>}
    /\ input.fieldName = "nationality" \/ Len(input.value) \in 2..16 ) =>
    LET f == input.fieldName
        v == input.value
    IN  /\ (\E t \in Terms : EqualIgnoringCase(v, t))
              => result.ret = Invalid(f, "profanity")
        /\ ( /\ Occurrences(v) # {}
              /\ \A o \in Occurrences(v) : InsideWord(o[1], v, o[2]) )
              => result.ret # Invalid(f, "profanity")

\* ---- C7
IsProfanity(r) == r # Valid /\ r # TypeError /\ r.message = "profanity"

\* What the last validation returns from a validator built from a term list.
WithList(terms) ==
  LET real == CharacterValidator(ProfanityRegex(terms))
  IN  IF input.kind = "field"
      THEN validateField(real, input.fieldName, input.value)[1]
      ELSE validateCharacter(real, input.character)[1]

\* C7: without a term list initializeValidator still builds a validator and
\* logs a diagnostic; that validator never returns profanity, and returns
\* what a validator with a term list returns wherever that is not profanity.
C7_Fallback ==
  ~profList.defined =>
    /\ characterValidator.defined <=> console # <<>>
    /\ \A i \in 1..Len(console) : console[i] = NotFoundMessage
    /\ IsValidation =>
         /\ ~IsProfanity(result.ret)
         /\ \A pl \in ProfLists :
              pl.defined =>
                /\ ~IsProfanity(WithList(pl.terms)) => result.ret = WithList(pl.terms)
                /\ (IsProfanity(WithList(pl.terms)) /\ result.op = "validateField")
                     => result.ret = Valid

C7_Witness ==
  /\ ~profList.defined
  /\ console # <<>>
  /\ result.op = "validateField"
  /\ input.fieldName = "nationality"
  /\ input.value = <<"a", "b">>
  /\ result.ret = Valid

\* ---- C8
\* C8: for a field name outside the five declared ones validateField returns
\* {isValid: true} and raises nothing.
C8_UnknownFieldPasses ==
  (result.op = "validateField" /\ input.fieldName \notin FieldNames) =>
    result.ret = Valid

\* ---- C9
\* C9: a validateField or validateCharacter call leaves the validator (the
\* matcher and its lastIndex) and the input unchanged, and every
\* validation of the same input returns what the first one returned.
C9_NoHiddenState ==
  [][ (ValidateField \/ ValidateCharacter) =>
        /\ characterValidator' = characterValidator
        /\ input' = input
        /\ \A i \in 1..Len(returned') : returned'[i] = returned'[1] ]_vars

C9_Witness ==
  /\ Len(returned) = 2
  /\ IsProfanity(returned[1])
  /\ returned[2] = returned[1]

\* ---- C10
\* C10: for a text isValidDate accepts, parseISODate gives a date, not NaN,
\* whose year, month and day are the ones written in the text, so an age
\* code from validateField is never due to an unparseable date, and
\* isTooYoung(v, 8) and isTooOld(v, 100) are not both true.
C10_ParsersAgree ==
  (IsDateInput /\ characterValidator.defined /\ isValidDate(input.value)) =>
    /\ result.op = "parseISODate" =>
         /\ result.ret # NaN
         /\ CivilFromDays(result.ret[2]) = TextYMD(input.value)
    /\ (result.op = "validateField" /\ result.ret # Valid) =>
         /\ result.ret.message \in {"age_too_young", "age_too_old"}
         /\ parseISODate(input.value) # NaN
    /\ (result.op \in {"isTooYoung", "isTooOld"} /\ result.ret) =>
         parseISODate(input.value) # NaN
    /\ ~(isTooYoung(input.value, 8) /\ isTooOld(input.value, 100))

C10_Witness ==
  /\ result.op = "parseISODate"
  /\ input.value = Format(2024, 2, 29)
  /\ result.ret = Num(DaysFromCivil(2024, 2, 29))

====
